---------------------------- MODULE Spec2Model ----------------------------
(***************************************************************************)
(* Vision-servo controller (src/缪旭/src/main.py): the line protocol        *)
(* session of main(), the per-frame pipeline of process_image()            *)
(* (detect_red_target, detect_yellow_obstacle, calculate_control_vector,   *)
(* send_control_command) and the lock-step driver of src/test.py.          *)
(*                                                                         *)
(* Numbers.  The code computes in floating point.  Here a vector component *)
(* is an integer count of 1/Unit (Unit = 10000), and a distance is an      *)
(* integer count of hundredths of a pixel, rounded up, so that every       *)
(* comparison `distance > T` of the code against a whole number T is       *)
(* decided exactly as for the real value.  Quotients truncate toward 0.    *)
(***************************************************************************)
EXTENDS Integers, Sequences, FiniteSets, TLC

(***************************************************************************)
(* Bounds of the model.                                                    *)
(***************************************************************************)
\* how many lines the driving process writes to the controller's stdin
MaxLines == 3

(***************************************************************************)
(* Fixed-point arithmetic.                                                 *)
(***************************************************************************)
Unit == 100 * 100
Hundredths == 10 * 10

None == "None"

Abs(a) == IF a < 0 THEN -a ELSE a
Min(a, b) == IF a < b THEN a ELSE b
Max(a, b) == IF a > b THEN a ELSE b

\* a / b for b > 0, truncated toward zero
DivT(a, b) == IF a < 0 THEN -((-a) \div b) ELSE a \div b

\* a * b / Unit, truncated toward zero, without leaving 32 bits
\* (|b| is at most a few Unit)
MulU(a, b) ==
    LET p == (Abs(a) \div Unit) * Abs(b) + ((Abs(a) % Unit) * Abs(b)) \div Unit
    IN  IF (a < 0) = (b < 0) THEN p ELSE -p

RECURSIVE SqrtSearch(_, _, _)
SqrtSearch(n, lo, hi) ==
    IF lo >= hi THEN lo
    ELSE LET mid == (lo + hi + 1) \div 2
         IN  IF mid * mid <= n THEN SqrtSearch(n, mid, hi)
                               ELSE SqrtSearch(n, lo, mid - 1)

\* np.sqrt(s) for a whole s, in hundredths, rounded up
np_sqrt(s) ==
    LET n == s * Hundredths * Hundredths
        r == SqrtSearch(n, 0, 46340)
    IN  IF r * r = n THEN r ELSE r + 1

\* c / distance as a fixed-point number (distance in hundredths, > 0):
\* c * Hundredths * Unit / distance by long division, truncated toward zero
Normalize(c, distance) ==
    LET a == Abs(c) * Hundredths
        q == (a \div distance) * Unit + ((a % distance) * Unit) \div distance
    IN  IF c < 0 THEN -q ELSE q

(***************************************************************************)
(* ColorLocator: detect_yellow_obstacle and detect_red_target.  An image   *)
(* is abstracted to its size and, per colour class, the regions that       *)
(* cv2.findContours returns after masking and morphology: each region has  *)
(* its contourArea, its zeroth moment m00 and its locating point (the      *)
(* centroid for yellow, the minimum enclosing circle's centre for red).    *)
(***************************************************************************)
MIN_AREA == 100

RECURSIVE MaxContour(_, _, _)
\* max(contours, key=cv2.contourArea): the first region of largest area
MaxContour(contours, i, best) ==
    IF i > Len(contours) THEN best
    ELSE MaxContour(contours, i + 1,
                    IF contours[i].area > contours[best].area THEN i ELSE best)

\* detect_yellow_obstacle returning the point (0, 0) when m00 is zero
detect_yellow_obstacle_origin(image) ==
    LET contours == image.yellow
    IN  IF contours = <<>> THEN [pos |-> None, area |-> 0]
        ELSE LET max_contour == contours[MaxContour(contours, 1, 1)]
                 area == max_contour.area
             IN  IF area < MIN_AREA THEN [pos |-> None, area |-> 0]
                 ELSE IF max_contour.m00 = 0 THEN [pos |-> <<0, 0>>, area |-> area]
                 ELSE [pos |-> <<max_contour.x, max_contour.y>>, area |-> area]

\* detect_yellow_obstacle ignoring a region of area exactly MIN_AREA too
detect_yellow_obstacle_strict(image) ==
    LET contours == image.yellow
    IN  IF contours = <<>> THEN [pos |-> None, area |-> 0]
        ELSE LET max_contour == contours[MaxContour(contours, 1, 1)]
                 area == max_contour.area
             IN  IF area <= MIN_AREA THEN [pos |-> None, area |-> 0]
                 ELSE IF max_contour.m00 = 0 THEN [pos |-> None, area |-> area]
                 ELSE [pos |-> <<max_contour.x, max_contour.y>>, area |-> area]

detect_yellow_obstacle(image) ==
    LET contours == image.yellow
    IN  IF contours = <<>> THEN [pos |-> None, area |-> 0]
        ELSE LET max_contour == contours[MaxContour(contours, 1, 1)]
                 area == max_contour.area
             IN  IF area < MIN_AREA THEN [pos |-> None, area |-> 0]
                 ELSE IF max_contour.m00 = 0 THEN [pos |-> None, area |-> area]
                 ELSE [pos |-> <<max_contour.x, max_contour.y>>, area |-> area]

detect_red_target(image) ==
    LET contours == image.red
    IN  IF contours = <<>> THEN None
        ELSE LET max_contour == contours[MaxContour(contours, 1, 1)]
             IN  IF max_contour.area < MIN_AREA THEN None
                 ELSE <<max_contour.x, max_contour.y>>


(***************************************************************************)
(* ControlLawEngine: calculate_control_vector.                             *)
(***************************************************************************)
FAST_APPROACH_THRESHOLD == 150
FINE_TUNE_THRESHOLD == 30
SAFETY_ZONE_SIZE == 150

\* Task2Gain with the gains of its two middle bands exchanged
Task2Gain_swapped(target_distance) ==
    IF target_distance > 100 * Hundredths THEN (3 * Unit) \div 2
    ELSE IF target_distance > 50 * Hundredths THEN (6 * Unit) \div 10
    ELSE IF target_distance > 25 * Hundredths THEN Unit
    ELSE IF target_distance > 10 * Hundredths THEN (4 * Unit) \div 10
    ELSE Unit \div 4

\* Task 2: the five-band gain, as a fixed-point number
Task2Gain(target_distance) ==
    IF target_distance > 100 * Hundredths THEN (3 * Unit) \div 2
    ELSE IF target_distance > 50 * Hundredths THEN Unit
    ELSE IF target_distance > 25 * Hundredths THEN (6 * Unit) \div 10
    ELSE IF target_distance > 10 * Hundredths THEN (4 * Unit) \div 10
    ELSE Unit \div 4

\* min(yellow_area / per, cap) as a fixed-point number
AreaFactor(yellow_area, per, cap) ==
    IF yellow_area >= per * cap THEN cap * Unit
    ELSE (yellow_area * Unit) \div per

\* (k / max(obs_distance, floor)) * (1 + area_factor)
RepulsionForce(k, obs_distance, floor, area_factor) ==
    MulU(DivT(k * Hundredths * Unit, Max(obs_distance, floor * Hundredths)),
         Unit + area_factor)

\* BypassTangent taking the first branch for a cross product of zero too
BypassTangent_nonneg(dx, dy, dx_obs, dy_obs) ==
    LET cross_product == dx * dy_obs - dy * dx_obs
        tangent_len == Max(np_sqrt(dx * dx + dy * dy), Hundredths)
    IN  IF cross_product >= 0
        THEN [x |-> dy, y |-> -dx, len |-> tangent_len]
        ELSE [x |-> -dy, y |-> dx, len |-> tangent_len]

\* BypassTangent always taking the tangent to the left
BypassTangent_oneside(dx, dy, dx_obs, dy_obs) ==
    [x |-> -dy, y |-> dx, len |-> Max(np_sqrt(dx * dx + dy * dy), Hundredths)]

\* BypassTangent with its two branches exchanged
BypassTangent_swapped(dx, dy, dx_obs, dy_obs) ==
    LET cross_product == dx * dy_obs - dy * dx_obs
        tangent_len == Max(np_sqrt(dx * dx + dy * dy), Hundredths)
    IN  IF cross_product > 0
        THEN [x |-> -dy, y |-> dx, len |-> tangent_len]
        ELSE [x |-> dy, y |-> -dx, len |-> tangent_len]

\* the tangent of the bypass, chosen by the side of the obstacle: its
\* components before the division, and tangent_len
BypassTangent(dx, dy, dx_obs, dy_obs) ==
    LET cross_product == dx * dy_obs - dy * dx_obs
        tangent_len == Max(np_sqrt(dx * dx + dy * dy), Hundredths)
    IN  IF cross_product > 0
        THEN [x |-> dy, y |-> -dx, len |-> tangent_len]
        ELSE [x |-> -dy, y |-> dx, len |-> tangent_len]

\* the "BYPASS MODE" vector of one regime:
\*   bypass_force * (tangent / tangent_len) + target_force * (d / target_distance)
\* tangent_len and target_distance are the same number whenever the target
\* is a whole pixel or more away; the two quotients are then added over
\* their common denominator, so that equal components stay equal
BypassSum(bypass_force, t, tangent_len, target_force, d, target_distance) ==
    IF tangent_len = target_distance
    THEN Normalize(bypass_force * t + target_force * d, target_distance)
    ELSE bypass_force * Normalize(t, tangent_len)
           + target_force * Normalize(d, target_distance)

BypassVector(bypass, bypass_force, target_force, dx, dy, target_distance) ==
    <<BypassSum(bypass_force, bypass.x, bypass.len, target_force, dx,
                target_distance),
      BypassSum(bypass_force, bypass.y, bypass.len, target_force, dy,
                target_distance)>>

\* the vector of one regime when the obstacle is not in the safety zone:
\* attraction, plus repulsion from an obstacle nearer than `range`, plus the
\* large-obstacle boost in the near regime
PotentialVector(attraction_force, dx, dy, target_distance, center, yellow_pos, yellow_area, range, k, floor, capArea, capForce, boost, image_area) ==
    LET vx0 == MulU(attraction_force, Normalize(dx, target_distance))
        vy0 == MulU(attraction_force, Normalize(dy, target_distance))
    IN  IF yellow_pos = None THEN <<vx0, vy0>>
        ELSE
          LET dx_obs == center[1] - yellow_pos[1]
              dy_obs == center[2] - yellow_pos[2]
              obs_sq == dx_obs * dx_obs + dy_obs * dy_obs
              obs_distance == np_sqrt(obs_sq)
          IN  IF ~(obs_sq < range * range) THEN <<vx0, vy0>>
              ELSE
                LET force0 == RepulsionForce(k, obs_distance, floor,
                                  AreaFactor(yellow_area, 300, capArea))
                    force == IF capForce = 0 THEN force0
                             ELSE Min(force0, capForce * Unit)
                    vx1 == vx0 + MulU(force, Normalize(dx_obs, obs_distance))
                    vy1 == vy0 + MulU(force, Normalize(dy_obs, obs_distance))
                    mult == IF ~boost THEN 1
                            ELSE IF 10 * yellow_area > image_area THEN 5
                            ELSE IF 20 * yellow_area > image_area THEN 3
                            ELSE 1
                IN  <<mult * vx1, mult * vy1>>

\* InSafetyZone with a half-width of 100
InSafetyZone_narrow(center, yellow_pos) ==
    /\ yellow_pos # None
    /\ Abs(yellow_pos[1] - center[1]) < 100
    /\ Abs(yellow_pos[2] - center[2]) < 100

\* InSafetyZone with the edge of the square inside the zone
InSafetyZone_inclusive(center, yellow_pos) ==
    /\ yellow_pos # None
    /\ Abs(yellow_pos[1] - center[1]) <= SAFETY_ZONE_SIZE
    /\ Abs(yellow_pos[2] - center[2]) <= SAFETY_ZONE_SIZE

\* `abs(dx_obs) < SAFETY_ZONE_SIZE and abs(dy_obs) < SAFETY_ZONE_SIZE` for a
\* detected obstacle
InSafetyZone(center, yellow_pos) ==
    /\ yellow_pos # None
    /\ Abs(yellow_pos[1] - center[1]) < SAFETY_ZONE_SIZE
    /\ Abs(yellow_pos[2] - center[2]) < SAFETY_ZONE_SIZE

\* the locals bypass_vx, bypass_vy as the fractions x / len and y / len:
\* the tangent when the obstacle is in the safety zone, else zero
Bypass(dx, dy, center, yellow_pos) ==
    IF InSafetyZone(center, yellow_pos)
    THEN BypassTangent(dx, dy, yellow_pos[1] - center[1],
                       yellow_pos[2] - center[2])
    ELSE [x |-> 0, y |-> 0, len |-> Hundredths]

\* Stage with the fine-tune boundary on the other side
Stage_inclusive(target_distance) ==
    IF target_distance > FAST_APPROACH_THRESHOLD * Hundredths THEN "far"
    ELSE IF target_distance >= FINE_TUNE_THRESHOLD * Hundredths THEN "mid"
    ELSE "near"

\* the stage of Task 3: "Stage 1: Far distance", "Stage 2: Medium distance",
\* "Stage 3: Close distance"
Stage(target_distance) ==
    IF target_distance > FAST_APPROACH_THRESHOLD * Hundredths THEN "far"
    ELSE IF target_distance > FINE_TUNE_THRESHOLD * Hundredths THEN "mid"
    ELSE "near"

\* the vector of one stage
StageVector(stage, bypass, in_zone, dx, dy, target_distance, center, yellow_pos, yellow_area, image_area) ==
    IF stage = "far"
    THEN IF in_zone
         THEN BypassVector(bypass, 4000, 300, dx, dy, target_distance)
         ELSE PotentialVector(600 * Unit, dx, dy, target_distance, center,
                              yellow_pos, yellow_area, 250, 1200, 2, 10, 0,
                              FALSE, image_area)
    ELSE IF stage = "mid"
    THEN IF in_zone
         THEN BypassVector(bypass, 3000, 200, dx, dy, target_distance)
         ELSE PotentialVector(
                  Min((target_distance * Hundredths) \div 30, 80 * Unit),
                  dx, dy, target_distance, center, yellow_pos, yellow_area,
                  180, 1500, 5, 10, 80, FALSE, image_area)
    ELSE IF in_zone
         THEN BypassVector(bypass, 2000, 100, dx, dy, target_distance)
         ELSE PotentialVector(
                  Min((target_distance * Hundredths) \div 80, 12 * Unit),
                  dx, dy, target_distance, center, yellow_pos, yellow_area,
                  120, 1200, 10, 8, 60, TRUE, image_area)

\* Task 3 (and every task other than 1 and 2): staged potential field
Task3Vector(dx, dy, target_distance, center, yellow_pos, yellow_area, image_area) ==
    StageVector(Stage(target_distance), Bypass(dx, dy, center, yellow_pos),
                InSafetyZone(center, yellow_pos), dx, dy, target_distance,
                center, yellow_pos, yellow_area, image_area)

\* AvoidOnlyVector without the cap of 15 on its force
AvoidOnlyVector_nocap(center, yellow_pos, yellow_area) ==
    IF yellow_pos = None THEN <<0, 0>>
    ELSE
      LET dx == center[1] - yellow_pos[1]
          dy == center[2] - yellow_pos[2]
          distance == np_sqrt(dx * dx + dy * dy)
      IN  IF ~(distance > 0) THEN <<0, 0>>
          ELSE
            LET force == RepulsionForce(300, distance, 40,
                                        AreaFactor(yellow_area, 800, 4))
            IN  <<MulU(force, Normalize(dx, distance)),
                  MulU(force, Normalize(dy, distance))>>

\* no target: repulsion from the obstacle alone
AvoidOnlyVector(center, yellow_pos, yellow_area) ==
    IF yellow_pos = None THEN <<0, 0>>
    ELSE
      LET dx == center[1] - yellow_pos[1]
          dy == center[2] - yellow_pos[2]
          distance == np_sqrt(dx * dx + dy * dy)
      IN  IF ~(distance > 0) THEN <<0, 0>>
          ELSE
            LET force == Min(RepulsionForce(300, distance, 40,
                                 AreaFactor(yellow_area, 800, 4)), 15 * Unit)
            IN  <<MulU(force, Normalize(dx, distance)),
                  MulU(force, Normalize(dy, distance))>>

\* the value returned: (vx, vy, target_distance)
ControlResult(v, target_distance) ==
    [vx |-> v[1], vy |-> v[2], distance |-> target_distance]

\* TargetVector sending Task 2 through the staged law of Task 3
TargetVector_staged(task, dx, dy, target_distance, center, yellow_pos, yellow_area, image_area) ==
    IF ~(target_distance > 0) THEN <<0, 0>>
    ELSE IF task = 1 THEN <<dx * Unit, dy * Unit>>
    ELSE Task3Vector(dx, dy, target_distance, center, yellow_pos, yellow_area,
                     image_area)

\* the branch `if red_pos is not None`, given dx, dy and target_distance
TargetVector(task, dx, dy, target_distance, center, yellow_pos, yellow_area, image_area) ==
    IF ~(target_distance > 0) THEN <<0, 0>>
    ELSE IF task = 1 THEN <<dx * Unit, dy * Unit>>
    ELSE IF task = 2
    THEN <<Task2Gain(target_distance) * dx, Task2Gain(target_distance) * dy>>
    ELSE Task3Vector(dx, dy, target_distance, center, yellow_pos, yellow_area,
                     image_area)

ControlAt(task, center, image_area, red_pos, yellow_pos, yellow_area) ==
    IF red_pos # None
    THEN ControlResult(
             TargetVector(task, red_pos[1] - center[1], red_pos[2] - center[2],
                          np_sqrt((red_pos[1] - center[1]) * (red_pos[1] - center[1])
                                  + (red_pos[2] - center[2]) * (red_pos[2] - center[2])),
                          center, yellow_pos, yellow_area, image_area),
             np_sqrt((red_pos[1] - center[1]) * (red_pos[1] - center[1])
                     + (red_pos[2] - center[2]) * (red_pos[2] - center[2])))
    ELSE ControlResult(AvoidOnlyVector(center, yellow_pos, yellow_area), 0)

\* the locals the Task 3 branch sets and logs: its stage and its bypass
\* vector; None where the branch is not taken
TargetLocals(task, dx, dy, target_distance, center, yellow_pos) ==
    IF ~(target_distance > 0) \/ task \in {1, 2}
    THEN [stage |-> None, bypass |-> None]
    ELSE [stage |-> Stage(target_distance),
          bypass |-> Bypass(dx, dy, center, yellow_pos)]

ControlLocals(task, center, red_pos, yellow_pos) ==
    IF red_pos = None THEN [stage |-> None, bypass |-> None]
    ELSE TargetLocals(task, red_pos[1] - center[1], red_pos[2] - center[2],
                      np_sqrt((red_pos[1] - center[1]) * (red_pos[1] - center[1])
                              + (red_pos[2] - center[2]) * (red_pos[2] - center[2])),
                      center, yellow_pos)

\* the distances the Task 3 branch divides by: target_distance, then
\* tangent_len in the bypass, or obs_distance when the obstacle is outside the
\* safety zone and nearer than the range of the stage
TargetDivisors(task, dx, dy, target_distance, center, yellow_pos) ==
    IF ~(target_distance > 0) \/ task \in {1, 2} THEN {}
    ELSE {target_distance} \cup
         (IF InSafetyZone(center, yellow_pos)
          THEN {Max(np_sqrt(dx * dx + dy * dy), Hundredths)}
          ELSE IF yellow_pos = None THEN {}
          ELSE LET dx_obs == center[1] - yellow_pos[1]
                   dy_obs == center[2] - yellow_pos[2]
                   range == IF Stage(target_distance) = "far" THEN 250
                            ELSE IF Stage(target_distance) = "mid" THEN 180
                            ELSE 120
               IN  IF dx_obs * dx_obs + dy_obs * dy_obs < range * range
                   THEN {np_sqrt(dx_obs * dx_obs + dy_obs * dy_obs)}
                   ELSE {})

\* the distances the no-target branch divides by
AvoidDivisors(center, yellow_pos) ==
    IF yellow_pos = None THEN {}
    ELSE IF np_sqrt((center[1] - yellow_pos[1]) * (center[1] - yellow_pos[1])
                    + (center[2] - yellow_pos[2]) * (center[2] - yellow_pos[2])) > 0
    THEN {np_sqrt((center[1] - yellow_pos[1]) * (center[1] - yellow_pos[1])
                  + (center[2] - yellow_pos[2]) * (center[2] - yellow_pos[2]))}
    ELSE {}

\* every distance calculate_control_vector divides by (hundredths)
Divisors(task, center, red_pos, yellow_pos) ==
    IF red_pos = None THEN AvoidDivisors(center, yellow_pos)
    ELSE TargetDivisors(task, red_pos[1] - center[1], red_pos[2] - center[2],
                        np_sqrt((red_pos[1] - center[1]) * (red_pos[1] - center[1])
                                + (red_pos[2] - center[2]) * (red_pos[2] - center[2])),
                        center, yellow_pos)

\* calculate_control_vector with the centre rounded up instead of down
calculate_control_vector_ceil(task, image_width, image_height, red_pos, yellow_pos, yellow_area) ==
    ControlAt(task, <<(image_width + 1) \div 2, (image_height + 1) \div 2>>,
              image_width * image_height, red_pos, yellow_pos, yellow_area)

calculate_control_vector(task, image_width, image_height, red_pos, yellow_pos, yellow_area) ==
    ControlAt(task, <<image_width \div 2, image_height \div 2>>,
              image_width * image_height, red_pos, yellow_pos, yellow_area)

(***************************************************************************)
(* CommandQuantizer: send_control_command.  The value is the sequence of   *)
(* lines the call prints on stdout.                                        *)
(***************************************************************************)
\* AdjustedThreshold with the threshold of Task 1 in every mode
AdjustedThreshold_pixel(task, distance) ==
    IF task = 2 THEN (3 * Unit) \div 2 ELSE Unit

\* AdjustedThreshold keeping 0.005 for the nearest distances
AdjustedThreshold_monotone(task, distance) ==
    IF task = 1 THEN Unit
    ELSE IF task = 2 THEN (3 * Unit) \div 2
    ELSE IF distance > 100 * Hundredths THEN Unit \div 1000
    ELSE IF distance > 50 * Hundredths THEN (2 * Unit) \div 1000
    ELSE IF distance > 20 * Hundredths THEN (3 * Unit) \div 1000
    ELSE (5 * Unit) \div 1000

AdjustedThreshold(task, distance) ==
    IF task = 1 THEN Unit
    ELSE IF task = 2 THEN (3 * Unit) \div 2
    ELSE IF distance > 100 * Hundredths THEN Unit \div 1000
    ELSE IF distance > 50 * Hundredths THEN (2 * Unit) \div 1000
    ELSE IF distance > 20 * Hundredths THEN (3 * Unit) \div 1000
    ELSE IF distance > 5 * Hundredths THEN (5 * Unit) \div 1000
    ELSE Unit \div 1000

\* DominantCommand giving equal magnitudes to the horizontal axis
DominantCommand_tie(vx, vy, adjusted_threshold) ==
    IF Abs(vx) >= Abs(vy)
    THEN IF vx > adjusted_threshold THEN "RIGHT"
         ELSE IF vx < -adjusted_threshold THEN "LEFT"
         ELSE None
    ELSE IF vy > adjusted_threshold THEN "DOWN"
         ELSE IF vy < -adjusted_threshold THEN "UP"
         ELSE None

\* DominantCommand with the signs of both axes exchanged
DominantCommand_swapped(vx, vy, adjusted_threshold) ==
    IF Abs(vx) > Abs(vy)
    THEN IF vx > adjusted_threshold THEN "LEFT"
         ELSE IF vx < -adjusted_threshold THEN "RIGHT"
         ELSE None
    ELSE IF vy > adjusted_threshold THEN "UP"
         ELSE IF vy < -adjusted_threshold THEN "DOWN"
         ELSE None

\* the direction chosen after the NOOP test; None when no branch assigns it
DominantCommand(vx, vy, adjusted_threshold) ==
    IF Abs(vx) > Abs(vy)
    THEN IF vx > adjusted_threshold THEN "RIGHT"
         ELSE IF vx < -adjusted_threshold THEN "LEFT"
         ELSE None
    ELSE IF vy > adjusted_threshold THEN "DOWN"
         ELSE IF vy < -adjusted_threshold THEN "UP"
         ELSE None

\* send_control_command returning without a line when the vector is small
send_control_command_silent(vx, vy, distance, task) ==
    IF /\ Abs(vx) < AdjustedThreshold(task, distance)
       /\ Abs(vy) < AdjustedThreshold(task, distance)
    THEN <<>>
    ELSE IF DominantCommand(vx, vy, AdjustedThreshold(task, distance)) # None
    THEN <<DominantCommand(vx, vy, AdjustedThreshold(task, distance))>>
    ELSE <<"NOOP">>

\* send_control_command without its final `else: print("NOOP")`
send_control_command_nofallback(vx, vy, distance, task) ==
    IF /\ Abs(vx) < AdjustedThreshold(task, distance)
       /\ Abs(vy) < AdjustedThreshold(task, distance)
    THEN <<"NOOP">>
    ELSE IF DominantCommand(vx, vy, AdjustedThreshold(task, distance)) # None
    THEN <<DominantCommand(vx, vy, AdjustedThreshold(task, distance))>>
    ELSE <<>>

\* send_control_command using its `threshold` parameter (0.3) throughout
send_control_command_base(vx, vy, distance, task) ==
    IF Abs(vx) < (3 * Unit) \div 10 /\ Abs(vy) < (3 * Unit) \div 10
    THEN <<"NOOP">>
    ELSE IF DominantCommand(vx, vy, (3 * Unit) \div 10) # None
    THEN <<DominantCommand(vx, vy, (3 * Unit) \div 10)>>
    ELSE <<"NOOP">>

send_control_command(vx, vy, distance, task) ==
    LET adjusted_threshold == AdjustedThreshold(task, distance)
        abs_vx == Abs(vx)
        abs_vy == Abs(vy)
    IN  IF abs_vx < adjusted_threshold /\ abs_vy < adjusted_threshold
        THEN <<"NOOP">>
        ELSE LET command == DominantCommand(vx, vy, adjusted_threshold)
             IN  IF command # None THEN <<command>> ELSE <<"NOOP">>


(***************************************************************************)
(* The world of a session: image files, input lines, output lines.         *)
(***************************************************************************)
Tasks == 0 .. 3

Commands == {"UP", "DOWN", "LEFT", "RIGHT", "NOOP"}

\* the decoded images that may lie behind a path (640 x 480 frames)
Region(area, m00, x, y) == [area |-> area, m00 |-> m00, x |-> x, y |-> y]

Images ==
    [ img1 |-> [w |-> 640, h |-> 480,
                red |-> <<Region(40, 40, 10, 10), Region(2000, 2000, 500, 150)>>,
                yellow |-> <<>>],
      img2 |-> [w |-> 640, h |-> 480,
                red |-> <<Region(2000, 2000, 320, 240)>>,
                yellow |-> <<Region(5000, 5000, 150, 240)>>],
      img3 |-> [w |-> 640, h |-> 480,
                red |-> <<Region(1800, 1800, 320, 100)>>,
                yellow |-> <<Region(20000, 20000, 320, 300),
                             Region(90, 90, 30, 30)>>] ]

ImageIds == DOMAIN Images

\* what lies behind a path: no file, a file cv2.imread cannot decode, an image
\* whose processing raises before its command is sent, or a decodable image
Contents == {"missing", "corrupt", "raises"} \cup ImageIds

Path(stem, ext) == [stem |-> stem, ext |-> ext]

Paths == {Path("a", ".PNG"), Path("b", ".jpg")}

BlankPath == Path("", "")

\* an input line: the text between its surrounding whitespace, and whether
\* there is more whitespace than the newline
Lines == { [ws |-> FALSE, text |-> Path("a", ".PNG")],
           [ws |-> TRUE,  text |-> Path("b", ".jpg")],
           [ws |-> FALSE, text |-> BlankPath],
           [ws |-> TRUE,  text |-> BlankPath] }

\* str.strip()
Strip(line) == line.text

\* str.lower() of a path
Lower(path) ==
    [path EXCEPT !.ext = IF @ = ".PNG" THEN ".png" ELSE @]

\* str.endswith(".png")
EndsWithPng(path) == path.ext = ".png"

TaskLine(task_id) == <<"task 0", "task 1", "task 2", "task 3">>[task_id + 1]

VARIABLES
    TASK_ID,      \* the global set from argv[1]
    debug_mode,   \* main's local, from argv[2]
    pc,           \* where the controller is
    stdin,        \* the lines written to the controller and not yet read
    closed,       \* the driver has closed the controller's stdin
    stdout,       \* every line the controller has printed, in order
    stderr,       \* every diagnostic line the controller has written (its tag)
    fs,           \* the file system: what lies behind each path
    image_path,   \* main's local: the stripped line being processed
    image_count,  \* the global frame counter
    counter,      \* main's local line counter
    vec,          \* process_image's locals vx, vy, distance
    reads,        \* history: the path of every non-blank line read
    turns,        \* history: the path and content of every process_image call
    nsent,        \* history: how many lines the driver has written
    drv,          \* where the driver is
    drv_read,     \* how many lines of stdout the driver has read
    frame         \* process_image's locals while a decoded image is held

vars == <<TASK_ID, debug_mode, pc, stdin, closed, stdout, stderr, fs,
          image_path, image_count, counter, vec, reads, turns, nsent, drv,
          drv_read, frame>>

NoVec == [vx |-> 0, vy |-> 0, distance |-> 0]

\* no image held: before cv2.imread and after `del image`
NoFrame == [image |-> None, red_pos |-> None, yellow_pos |-> None,
            yellow_area |-> 0, stage |-> None, bypass |-> None,
            divisors |-> {}]

(***************************************************************************)
(* The controller: main(), handshake(), process_image().                   *)
(***************************************************************************)
ctl == <<TASK_ID, debug_mode, fs, closed, nsent, drv, drv_read, frame>>

\* log(msg) n times: "[Debug]" lines on stderr (VERBOSE_LOG is True)
log(err, n) == err \o [i \in 1 .. n |-> "[Debug]"]

\* handshake(): print(f"debug=false")
HandshakeDebug ==
    /\ pc = "handshake"
    /\ stdout' = Append(stdout, "debug=false")
    /\ pc' = "handshake_task"
    /\ UNCHANGED <<ctl, stdin, stderr, image_path, image_count, counter, vec,
                   reads, turns>>

\* HandshakeTask sending the identification lines whatever the task
HandshakeTask_always ==
    /\ pc = "handshake_task"
    /\ stdout' = Append(stdout, TaskLine(TASK_ID))
    /\ pc' = "handshake_name"
    /\ UNCHANGED <<ctl, stdin, stderr, image_path, image_count, counter, vec,
                   reads, turns>>

\* handshake(): print(f"task {task_id}")
HandshakeTask ==
    /\ pc = "handshake_task"
    /\ stdout' = Append(stdout, TaskLine(TASK_ID))
    /\ pc' = IF TASK_ID = 0 THEN "handshake_name" ELSE "startup"
    /\ UNCHANGED <<ctl, stdin, stderr, image_path, image_count, counter, vec,
                   reads, turns>>

\* handshake(), task 0: the name, then log
HandshakeName ==
    /\ pc = "handshake_name"
    /\ stdout' = Append(stdout, "name")
    /\ stderr' = log(stderr, 1)
    /\ pc' = "handshake_id"
    /\ UNCHANGED <<ctl, stdin, image_path, image_count, counter, vec, reads,
                   turns>>

\* handshake(), task 0: the student id, then log
HandshakeId ==
    /\ pc = "handshake_id"
    /\ stdout' = Append(stdout, "202510322027")
    /\ stderr' = log(stderr, 1)
    /\ pc' = "startup"
    /\ UNCHANGED <<ctl, stdin, image_path, image_count, counter, vec, reads,
                   turns>>

\* main(): the "[System]" start line on stderr, counter = 0
Startup ==
    /\ pc = "startup"
    /\ stderr' = Append(stderr, "[System]")
    /\ counter' = 0
    /\ pc' = "read"
    /\ UNCHANGED <<ctl, stdin, stdout, image_path, image_count, vec, reads,
                   turns>>

\* main(): readline() returns "" : end of input, leave the loop
ReadEOF ==
    /\ pc = "read"
    /\ stdin = <<>>
    /\ closed
    /\ stderr' = Append(stderr, "[System]")
    /\ pc' = "done"
    /\ UNCHANGED <<ctl, stdin, stdout, image_path, image_count, counter, vec,
                   reads, turns>>

\* ReadBlank without its `continue`
ReadBlank_nocontinue ==
    /\ pc = "read"
    /\ stdin # <<>>
    /\ Strip(Head(stdin)) = BlankPath
    /\ stdin' = Tail(stdin)
    /\ image_path' = Strip(Head(stdin))
    /\ stderr' = log(stderr, 1)
    /\ counter' = counter + 1
    /\ pc' = "process"
    /\ UNCHANGED <<ctl, stdout, image_count, vec, reads, turns>>

\* main(): a line whose strip() is empty: log, count, continue
ReadBlank ==
    /\ pc = "read"
    /\ stdin # <<>>
    /\ Strip(Head(stdin)) = BlankPath
    /\ stdin' = Tail(stdin)
    /\ image_path' = Strip(Head(stdin))
    /\ stderr' = log(stderr, 1)
    /\ counter' = counter + 1
    /\ pc' = "read"
    /\ UNCHANGED <<ctl, stdout, image_count, vec, reads, turns>>

\* ReadPath with its log line printed on stdout
ReadPath_print ==
    /\ pc = "read"
    /\ stdin # <<>>
    /\ Strip(Head(stdin)) # BlankPath
    /\ stdin' = Tail(stdin)
    /\ image_path' = Strip(Head(stdin))
    /\ stdout' = Append(stdout, "[Debug]")
    /\ counter' = counter + 1
    /\ reads' = Append(reads, Strip(Head(stdin)))
    /\ pc' = "process"
    /\ UNCHANGED <<ctl, stderr, image_count, vec, turns>>

\* main(): a line naming a path: log, count, go on to process_image
ReadPath ==
    /\ pc = "read"
    /\ stdin # <<>>
    /\ Strip(Head(stdin)) # BlankPath
    /\ stdin' = Tail(stdin)
    /\ image_path' = Strip(Head(stdin))
    /\ stderr' = log(stderr, 1)
    /\ counter' = counter + 1
    /\ reads' = Append(reads, Strip(Head(stdin)))
    /\ pc' = "process"
    /\ UNCHANGED <<ctl, stdout, image_count, vec, turns>>

\* what lies behind a path (the empty path is the current directory, which
\* exists and is no image)
FileAt(files, path) == IF path \in DOMAIN files THEN files[path] ELSE "corrupt"

\* RemovePng removing the file whatever its extension
RemovePng_any(files, path) ==
    IF path \in DOMAIN files /\ FileAt(files, path) # "missing"
    THEN [files EXCEPT ![path] = "missing"]
    ELSE files

\* os.remove(image_path) when the lowered path ends in .png (and, in the
\* exception handler, the file exists)
RemovePng(files, path) ==
    IF EndsWithPng(Lower(path)) /\ FileAt(files, path) # "missing"
    THEN [files EXCEPT ![path] = "missing"]
    ELSE files

\* calculate_control_vector on what the two locators returned
ControlOf(task, image, red_pos, yellow) ==
    calculate_control_vector(task, image.w, image.h, red_pos, yellow.pos,
                             yellow.area)

\* the vector process_image computes for a decoded image
FrameVector(task, image) ==
    ControlOf(task, image, detect_red_target(image),
              detect_yellow_obstacle(image))

\* FrameVector of every image under every task, computed once
FrameVectors ==
    [task \in Tasks |-> [id \in ImageIds |-> FrameVector(task, Images[id])]]

\* send_control_command(vx, vy, distance, threshold=0.3)
SendVector(v, task) == send_control_command(v.vx, v.vy, v.distance, task)

\* the line process_image prints for the image `id`
FrameCommand(task, id) == SendVector(FrameVectors[task][id], task)

\* process_image after cv2.imread: detect, compute, send, remove the PNG
ProcessFrame(files, path, task, v) ==
    [printed |-> SendVector(v, task),
     logged |-> 3,
     files |-> RemovePng(files, path),
     vec |-> v,
     raised |-> FALSE,
     result |-> TRUE]

\* process_image returning False without a word
ReturnFalse(files) ==
    [printed |-> <<>>, logged |-> 0, files |-> files, vec |-> NoVec,
     raised |-> FALSE, result |-> FALSE]

\* the try block of process_image: what it printed and logged, the files it
\* left, and whether it returned (result) or raised
ProcessBody(files, path, task) ==
    IF FileAt(files, path) = "missing"
    THEN ReturnFalse(files)                \* not Path(image_path).exists()
    ELSE IF FileAt(files, path) = "corrupt"
    THEN ReturnFalse(files)                \* cv2.imread(image_path) is None
    ELSE IF FileAt(files, path) = "raises"
    THEN [ReturnFalse(files) EXCEPT !.raised = TRUE]
    ELSE ProcessFrame(files, path, task, FrameVectors[task][FileAt(files, path)])

\* process_image without its `except Exception`: the exception reaches main
ExceptHandler_none(body, files, path) == body

\* `except Exception` of process_image: remove the PNG, return False
ExceptHandler(body, files, path) ==
    IF body.raised THEN ReturnFalse(RemovePng(files, path)) ELSE body

\* process_image(image_path): the try block and the handler around it
process_image(files, path, task) ==
    ExceptHandler(ProcessBody(files, path, task), files, path)

\* ProcessLine leaving the loop when process_image did not succeed
ProcessLine_exit ==
    /\ pc = "process"
    /\ \E r \in {process_image(fs, image_path, TASK_ID)} :
           /\ stdout' = stdout \o r.printed
           /\ stderr' = log(stderr, r.logged)
           /\ fs' = r.files
           /\ vec' = r.vec
           /\ pc' = IF r.result THEN "read" ELSE "done"
    /\ image_count' = image_count + 1
    /\ turns' = Append(turns, [path |-> image_path,
                               content |-> FileAt(fs, image_path)])
    /\ UNCHANGED <<TASK_ID, debug_mode, closed, nsent, drv, drv_read, stdin,
                   image_path, counter, reads, frame>>

\* main(): try: process_image(image_path); except Exception: write the
\* "[Error]" line; continue
ProcessLine ==
    /\ pc = "process"
    /\ \E r \in {process_image(fs, image_path, TASK_ID)} :
           /\ stdout' = stdout \o r.printed
           /\ stderr' = log(stderr, r.logged)
                          \o (IF r.raised THEN <<"[Error]">> ELSE <<>>)
           /\ fs' = r.files
           /\ vec' = r.vec
    /\ image_count' = image_count + 1
    /\ turns' = Append(turns, [path |-> image_path,
                               content |-> FileAt(fs, image_path)])
    /\ pc' = "read"
    /\ UNCHANGED <<TASK_ID, debug_mode, closed, nsent, drv, drv_read, stdin,
                   image_path, counter, reads, frame>>

Controller ==
    \/ HandshakeDebug
    \/ HandshakeTask
    \/ HandshakeName
    \/ HandshakeId
    \/ Startup
    \/ ReadEOF
    \/ ReadBlank
    \/ ReadPath
    \/ ProcessLine

(***************************************************************************)
(* A driving process that writes lines whenever it likes and then closes   *)
(* the stream.                                                             *)
(***************************************************************************)
world == <<TASK_ID, debug_mode, pc, stdout, stderr, fs, image_path,
           image_count, counter, vec, reads, turns, frame>>

EnvSend ==
    /\ drv = "free"
    /\ ~closed
    /\ nsent < MaxLines
    /\ \E line \in Lines : stdin' = Append(stdin, line)
    /\ nsent' = nsent + 1
    /\ UNCHANGED <<world, closed, drv, drv_read>>

EnvClose ==
    /\ drv = "free"
    /\ ~closed
    /\ closed' = TRUE
    /\ UNCHANGED <<world, stdin, nsent, drv, drv_read>>

InitSession ==
    /\ TASK_ID \in Tasks
    /\ debug_mode \in BOOLEAN
    /\ pc = "handshake"
    /\ stdin = <<>>
    /\ closed = FALSE
    /\ stdout = <<>>
    /\ stderr = <<>>
    /\ fs \in [Paths -> Contents]
    /\ image_path = BlankPath
    /\ image_count = 0
    /\ counter = 0
    /\ vec = NoVec
    /\ reads = <<>>
    /\ turns = <<>>
    /\ nsent = 0
    /\ drv_read = 0
    /\ frame = NoFrame

Init ==
    /\ InitSession
    /\ drv = "free"

Next ==
    \/ HandshakeDebug
    \/ HandshakeTask
    \/ HandshakeName
    \/ HandshakeId
    \/ Startup
    \/ ReadEOF
    \/ ReadBlank
    \/ ReadPath
    \/ ProcessLine
    \/ EnvSend
    \/ EnvClose

Spec == Init /\ [][Next]_vars

\* the controller is a running process: it takes its next step when it can
SpecFair == Spec /\ WF_vars(Controller)

(***************************************************************************)
(* The driver of src/test.py: it reads two handshake lines, then for each  *)
(* image writes its path and reads one line of stdout before going on, and *)
(* at the end closes the controller's stdin.                               *)
(***************************************************************************)
\* process.stdout.readline() returns once a line is there (or the stream ended)
DrvCanRead == drv_read < Len(stdout) \/ pc = "done"

DrvTakeLine == drv_read' = IF drv_read < Len(stdout) THEN drv_read + 1
                           ELSE drv_read

\* line1 = readline(); line2 = readline()
DrvHandshake ==
    /\ drv \in {"handshake1", "handshake2"}
    /\ DrvCanRead
    /\ DrvTakeLine
    /\ drv' = IF drv = "handshake1" THEN "handshake2" ELSE "send"
    /\ UNCHANGED <<world, stdin, closed, nsent>>

\* process.stdin.write(image_path + "\n"); flush
DrvSend ==
    /\ drv = "send"
    /\ nsent < MaxLines
    /\ \E line \in Lines :
          /\ Strip(line) # BlankPath
          /\ stdin' = Append(stdin, line)
    /\ nsent' = nsent + 1
    /\ drv' = "command"
    /\ UNCHANGED <<world, closed, drv_read>>

\* command = process.stdout.readline()
DrvCommand ==
    /\ drv = "command"
    /\ DrvCanRead
    /\ DrvTakeLine
    /\ drv' = "send"
    /\ UNCHANGED <<world, stdin, closed, nsent>>

\* after the last image: process.stdin.close()
DrvClose ==
    /\ drv = "send"
    /\ nsent = MaxLines
    /\ closed' = TRUE
    /\ drv' = "closed"
    /\ UNCHANGED <<world, stdin, nsent, drv_read>>

InitHarness ==
    /\ InitSession
    /\ drv = "handshake1"

\* (the driver writes no blank line, so ReadBlank has no step here)
NextHarness ==
    \/ HandshakeDebug
    \/ HandshakeTask
    \/ HandshakeName
    \/ HandshakeId
    \/ Startup
    \/ ReadEOF
    \/ ReadPath
    \/ ProcessLine
    \/ DrvHandshake
    \/ DrvSend
    \/ DrvCommand
    \/ DrvClose

SpecHarness == InitHarness /\ [][NextHarness]_vars


(***************************************************************************)
(* The quantizer alone: send_control_command applied to every vector,      *)
(* distance and task of a bounded set that straddles every threshold.      *)
(***************************************************************************)
\* the thresholds of the code, as fixed-point numbers
Thresholds == { Unit \div 1000, (2 * Unit) \div 1000, (3 * Unit) \div 1000,
                (5 * Unit) \div 1000, (3 * Unit) \div 10, Unit,
                (3 * Unit) \div 2 }

\* magnitudes: zero, each threshold and its two neighbours, and a large one
QMagnitudes == {0, 2000 * Unit} \cup { t + e : t \in Thresholds, e \in {-1, 0, 1} }

QValues == QMagnitudes \cup { -m : m \in QMagnitudes }

\* distances (hundredths): each band edge of the threshold table and beyond
QDistances == { 0, 5 * Hundredths, 5 * Hundredths + 1, 20 * Hundredths,
                20 * Hundredths + 1, 50 * Hundredths, 50 * Hundredths + 1,
                100 * Hundredths, 100 * Hundredths + 1, 300 * Hundredths }

InitQuant ==
    /\ TASK_ID \in Tasks
    /\ vec \in [vx : QValues, vy : QValues, distance : QDistances]
    /\ pc = "quantize"
    /\ stdout = <<>>
    /\ debug_mode = FALSE
    /\ stdin = <<>>
    /\ closed = FALSE
    /\ stderr = <<>>
    /\ fs = [p \in Paths |-> "missing"]
    /\ image_path = BlankPath
    /\ image_count = 0
    /\ counter = 0
    /\ reads = <<>>
    /\ turns = <<>>
    /\ nsent = 0
    /\ drv = "none"
    /\ drv_read = 0
    /\ frame = NoFrame

\* send_control_command(vx, vy, distance)
Quantize ==
    /\ pc = "quantize"
    /\ stdout' = stdout \o SendVector(vec, TASK_ID)
    /\ pc' = "quantized"
    /\ UNCHANGED <<TASK_ID, debug_mode, stdin, closed, stderr, fs, image_path,
                   image_count, counter, vec, reads, turns, nsent, drv,
                   drv_read, frame>>

NextQuant == Quantize

SpecQuant == InitQuant /\ [][NextQuant]_vars

(***************************************************************************)
(* One frame alone: the steps of process_image on a decoded image, from    *)
(* the two locators to the command, over a bounded set of images whose     *)
(* targets and obstacles straddle every distance band, the safety zone,    *)
(* the repulsion ranges and the area thresholds.                           *)
(***************************************************************************)
\* frame sizes (width, height): the simulator's, and one with odd sides
FrameSizes == { <<640, 480>>, <<641, 481>> }

\* a point given by its offset from pixel (320, 240)
At(offset) == <<320 + offset[1], 240 + offset[2]>>

Blob(area, offset) == Region(area, area, At(offset)[1], At(offset)[2])

\* target offsets: the centre, the band edges of Task 2 (10, 25, 50, 100)
\* and of Task 3 (30, 150) from both sides, whole and fractional distances
TargetOffsets ==
    { <<0, 0>>, <<180, -90>>, <<0, 1>>, <<1, 0>>, <<3, 4>>, <<10, 0>>,
      <<11, 0>>, <<25, 0>>, <<26, 0>>, <<29, 0>>, <<18, 24>>, <<30, 0>>,
      <<31, 0>>, <<21, 21>>, <<22, 21>>, <<50, 0>>, <<51, 0>>, <<100, 0>>,
      <<101, 0>>, <<90, 120>>, <<150, 0>>, <<151, 0>>, <<0, -200>>,
      <<-40, -40>> }

\* what cv2.findContours may return for the red mask
RedContours ==
    { <<>>,
      <<Blob(99, <<80, 0>>)>>,
      <<Blob(100, <<80, 0>>)>>,
      <<Blob(40, <<-100, -100>>), Blob(2000, <<60, 80>>)>>,
      <<Blob(500, <<0, 12>>), Blob(500, <<-70, 0>>)>> }
      \cup { <<Blob(2000, o)>> : o \in TargetOffsets }

\* obstacle offsets: inside the safety zone (pairs mirrored about the axes,
\* the diagonal and the line through (3, 4)), on its edge, and outside it
\* within and beyond the repulsion ranges
ObstacleOffsets ==
    { <<0, 0>>, <<-170, 0>>, <<0, 60>>, <<100, 50>>, <<100, -50>>,
      <<-100, 50>>, <<50, 100>>, <<25, 0>>, <<-7, 24>>, <<100, -75>>,
      <<-100, 75>>, <<125, 125>>, <<85, 155>>, <<149, -149>>, <<150, 0>>,
      <<160, 0>>, <<200, 0>>, <<260, 0>> }

\* obstacle areas: small, large, above 0.05 and above 0.1 of the frame
ObstacleAreas == { 150, 5000, 20000, 40000 }

\* what cv2.findContours may return for the yellow mask
YellowContours ==
    { <<>>,
      <<Blob(99, <<0, 60>>)>>,
      <<Blob(100, <<0, 60>>)>>,
      <<Region(150, 0, 0, 0)>>,
      <<Blob(120, <<100, 50>>), Region(40000, 0, 0, 0)>>,
      <<Blob(60, <<100, 50>>), Blob(5000, <<-7, 24>>)>> }
      \cup { <<Blob(a, o)>> : a \in ObstacleAreas, o \in ObstacleOffsets }

\* the decoded images
Scenes ==
    { [w |-> size[1], h |-> size[2], red |-> r, yellow |-> y] :
          size \in FrameSizes, r \in RedContours, y \in YellowContours }

rest == <<debug_mode, stdin, closed, stderr, fs, image_path, image_count,
          counter, reads, turns, nsent, drv, drv_read>>

InitControl ==
    /\ TASK_ID \in Tasks
    /\ frame \in { [NoFrame EXCEPT !.image = image] : image \in Scenes }
    /\ pc = "detect"
    /\ vec = NoVec
    /\ stdout = <<>>
    /\ debug_mode = FALSE
    /\ stdin = <<>>
    /\ closed = FALSE
    /\ stderr = <<>>
    /\ fs = [p \in Paths |-> "missing"]
    /\ image_path = BlankPath
    /\ image_count = 1
    /\ counter = 1
    /\ reads = <<>>
    /\ turns = <<>>
    /\ nsent = 0
    /\ drv = "none"
    /\ drv_read = 0

\* detect_red_target(image); detect_yellow_obstacle(image); red_pos, yellow_pos
Detect ==
    /\ pc = "detect"
    /\ \E yellow \in {detect_yellow_obstacle(frame.image)} :
           frame' = [frame EXCEPT !.red_pos = detect_red_target(frame.image),
                                  !.yellow_pos = yellow.pos,
                                  !.yellow_area = yellow.area]
    /\ pc' = "control"
    /\ UNCHANGED <<TASK_ID, vec, stdout, rest>>

\* vx, vy, distance = calculate_control_vector(width, height, red_pos,
\* yellow_pos, yellow_area)
Control ==
    /\ pc = "control"
    /\ vec' = calculate_control_vector(TASK_ID, frame.image.w, frame.image.h,
                                       frame.red_pos, frame.yellow_pos,
                                       frame.yellow_area)
    /\ \E l \in {ControlLocals(TASK_ID,
                              <<frame.image.w \div 2, frame.image.h \div 2>>,
                              frame.red_pos, frame.yellow_pos)} :
           frame' = [frame EXCEPT
                        !.stage = l.stage,
                        !.bypass = l.bypass,
                        !.divisors =
                            Divisors(TASK_ID,
                                     <<frame.image.w \div 2, frame.image.h \div 2>>,
                                     frame.red_pos, frame.yellow_pos)]
    /\ pc' = "send"
    /\ UNCHANGED <<TASK_ID, stdout, rest>>

\* send_control_command(vx, vy, distance, threshold=0.3)
Send ==
    /\ pc = "send"
    /\ stdout' = stdout \o SendVector(vec, TASK_ID)
    /\ pc' = "sent"
    /\ UNCHANGED <<TASK_ID, vec, frame, rest>>

NextControl ==
    \/ Detect
    \/ Control
    \/ Send

SpecControl == InitControl /\ [][NextControl]_vars

(***************************************************************************)
(* Properties.                                                             *)
(***************************************************************************)
Range(seq) == { seq[i] : i \in DOMAIN seq }

HandshakeLen == IF TASK_ID = 0 THEN 4 ELSE 2

\* the lines printed after the handshake
CommandLines == SubSeq(stdout, HandshakeLen + 1, Len(stdout))

Faults == {"missing", "corrupt", "raises"}

\* every frame processed so far was an existing, readable image
AllValid == \A i \in DOMAIN turns : turns[i].content \in ImageIds

\* C1: if every non-blank line read so far named an existing, readable image,
\* then exactly one command has been printed per processed line, the k-th
\* command being the command of the k-th line's image; while line k is being
\* processed its command is not yet out (it is read first), and whenever the
\* controller is about to read a line the commands of all lines read before
\* are out.
C1_OneCommandPerValidLine ==
    AllValid =>
        /\ Len(CommandLines) = Len(turns)
        /\ \A k \in DOMAIN turns :
              /\ turns[k].path = reads[k]
              /\ <<CommandLines[k]>> = FrameCommand(TASK_ID, turns[k].content)
        /\ (pc = "process" => Len(CommandLines) = Len(reads) - 1)
        /\ (pc \in {"read", "done"} => Len(CommandLines) = Len(reads))

C1_Witness ==
    /\ pc = "done"
    /\ AllValid
    /\ Len(turns) = 2
    /\ Len(CommandLines) = 2
    /\ CommandLines[1] # CommandLines[2]

\* C2: under the lock-step driver of test.py there is no state in which the
\* driver waits for a command line that is not there while the controller
\* waits for an input line that is not there.
C2_NoStall ==
    ~ ( /\ drv = "command"
        /\ drv_read = Len(stdout)
        /\ pc = "read"
        /\ stdin = <<>>
        /\ ~closed )

\* C3: send_control_command prints exactly one line, one of the five commands,
\* whatever the vector, the distance and the task.
C3_QuantizerTotal ==
    pc = "quantized" => Len(stdout) = 1 /\ stdout[1] \in Commands

\* the call went through the final `else: print("NOOP")`
C3_Witness ==
    /\ pc = "quantized"
    /\ ~ ( /\ Abs(vec.vx) < AdjustedThreshold(TASK_ID, vec.distance)
           /\ Abs(vec.vy) < AdjustedThreshold(TASK_ID, vec.distance) )
    /\ stdout = <<"NOOP">>

\* a process_image call on a path whose file is missing or undecodable, or
\* whose processing raises
FaultTurn ==
    /\ pc = "process"
    /\ FileAt(fs, image_path) \in Faults
    /\ image_count' = image_count + 1

C5_BlankSkipped ==
    [][ ( /\ pc = "read"
          /\ stdin # <<>>
          /\ Strip(Head(stdin)) = BlankPath
          /\ counter' = counter + 1 )
        => /\ stdout' = stdout
           /\ image_count' = image_count
           /\ turns' = turns
           /\ fs' = fs
           /\ stdin' = Tail(stdin)
           /\ pc' = "read" ]_vars

\* a whitespace-only line was read and the next line was answered
C5_Witness ==
    /\ counter = 2
    /\ Len(reads) = 1
    /\ Len(turns) = 1
    /\ Len(CommandLines) = 1
    /\ image_count = 1

\* C6: the loop is left only once end-of-input has been read (whatever the
\* frames were), nothing is printed afterwards, and once the input is closed
\* the controller does leave.
C6_ExitOnlyAtEOF ==
    /\ [](pc = "done" => closed /\ stdin = <<>>)
    /\ [][pc = "done" => stdout' = stdout /\ pc' = "done"]_vars
    /\ (closed ~> pc = "done")

\* the controller left after a blank line and a faulty frame
C6_Witness ==
    /\ pc = "done"
    /\ counter = 3
    /\ Len(turns) = 2
    /\ turns[1].content \in Faults
    /\ turns[2].content \in Faults

HandshakePcs == {"handshake", "handshake_task", "handshake_name", "handshake_id"}

\* C7: until the handshake is over no line has been read and no command
\* printed; the first line is the debug line, the second `task <n>`; the
\* lines after these that are no commands (identification lines) come before
\* every command, and there are some if and only if n = 0.
C7_HandshakeOrder ==
    /\ pc \in HandshakePcs =>
          /\ nsent - Len(stdin) = 0
          /\ Range(stdout) \cap Commands = {}
    /\ Len(stdout) >= 1 => stdout[1] \in {"debug=true", "debug=false"}
    /\ Len(stdout) >= 2 => stdout[2] = TaskLine(TASK_ID)
    /\ pc \notin HandshakePcs =>
          /\ Len(stdout) >= 2
          /\ (TASK_ID = 0) <=> (Len(stdout) >= 3 /\ stdout[3] \notin Commands)
          /\ \A i \in 3 .. Len(stdout) :
                stdout[i] \notin Commands =>
                    \A j \in 3 .. i : stdout[j] \notin Commands

C7_Witness ==
    /\ TASK_ID = 0
    /\ pc = "read"
    /\ Len(stdout) = 5
    /\ stdout[5] \in Commands

DiagTags == {"[Debug]", "[System]", "[Error]"}

\* C8: every line printed after the handshake is one of the five commands;
\* no diagnostic line is on stdout, and stderr holds diagnostic lines only.
C8_CommandsOnly ==
    /\ \A i \in DOMAIN stdout : i > HandshakeLen => stdout[i] \in Commands
    /\ Range(stdout) \cap DiagTags = {}
    /\ Range(stderr) \subseteq DiagTags

C8_Witness ==
    /\ Len(CommandLines) = 2
    /\ Len(stderr) >= 8

\* C9: a vector whose larger magnitude is below the threshold of its task and
\* distance is answered NOOP.
C9_NoopBelowThreshold ==
    ( /\ pc = "quantized"
      /\ Max(Abs(vec.vx), Abs(vec.vy)) < AdjustedThreshold(TASK_ID, vec.distance) )
    => stdout = <<"NOOP">>

C9_Witness ==
    /\ pc = "quantized"
    /\ TASK_ID = 1
    /\ vec.vx = Unit - 1
    /\ vec.vy = -(Unit - 1)
    /\ stdout = <<"NOOP">>

\* C10: a vector whose larger magnitude exceeds the threshold is answered by
\* the signed direction of its larger component, never by NOOP.
C10_DominantAxis ==
    ( /\ pc = "quantized"
      /\ Max(Abs(vec.vx), Abs(vec.vy)) > AdjustedThreshold(TASK_ID, vec.distance) )
    => /\ stdout # <<"NOOP">>
       /\ Abs(vec.vx) > Abs(vec.vy) =>
             stdout = <<IF vec.vx > 0 THEN "RIGHT" ELSE "LEFT">>
       /\ Abs(vec.vy) > Abs(vec.vx) =>
             stdout = <<IF vec.vy > 0 THEN "DOWN" ELSE "UP">>

C10_Witness ==
    /\ pc = "quantized"
    /\ TASK_ID = 3
    /\ vec.distance = 5 * Hundredths + 1
    /\ vec.vx = -((5 * Unit) \div 1000 + 1)
    /\ vec.vy = (5 * Unit) \div 1000
    /\ stdout = <<"LEFT">>

(***************************************************************************)
(* The earlier variant of the controller, src/main.py, which src/test.py   *)
(* drives.  Its locators, its Task 1 and Task 2 laws, its no-target branch *)
(* and its quantizer are those above; its Task 3 has no safety zone and    *)
(* other forces.  A division of zero by the numpy float 0.0 yields NaN.    *)
(***************************************************************************)
LegacyStage(target_distance) ==
    IF target_distance > 150 * Hundredths THEN "far"
    ELSE IF target_distance > 30 * Hundredths THEN "mid"
    ELSE "near"

LegacyAttraction(stage, target_distance) ==
    IF stage = "far" THEN 2000 * Unit
    ELSE IF stage = "mid"
    THEN Min((target_distance * Hundredths) \div 20, 120 * Unit)
    ELSE Min((target_distance * Hundredths) \div 80, 12 * Unit)

\* whether the stage adds a repulsion: `obs_distance < 60` in the far stage,
\* `obs_distance > 0` in the other two
LegacyRepels(stage, obs_sq) ==
    IF stage = "far" THEN obs_sq < 60 * 60 ELSE obs_sq > 0

LegacyForce(stage, obs_distance, yellow_area) ==
    IF stage = "far" THEN RepulsionForce(50, obs_distance, 15, 0)
    ELSE IF stage = "mid"
    THEN Min(RepulsionForce(200, obs_distance, 50,
                            AreaFactor(yellow_area, 1000, 3)), 12 * Unit)
    ELSE Min(RepulsionForce(300, obs_distance, 40,
                            AreaFactor(yellow_area, 800, 4)), 15 * Unit)

\* the boost of the near stage: 2.5 above a tenth of the frame, 1.5 above a
\* twentieth
LegacyBoost(stage, yellow_area, image_area, c) ==
    IF stage # "near" THEN c
    ELSE IF 10 * yellow_area > image_area THEN DivT(5 * c, 2)
    ELSE IF 20 * yellow_area > image_area THEN DivT(3 * c, 2)
    ELSE c

\* attraction plus repulsion, boosted; obs_distance > 0
LegacyRepelled(stage, attraction, force, dx, dy, target_distance, dx_obs, dy_obs, obs_distance, yellow_area, image_area) ==
    <<LegacyBoost(stage, yellow_area, image_area,
                  MulU(attraction, Normalize(dx, target_distance))
                    + MulU(force, Normalize(dx_obs, obs_distance))),
      LegacyBoost(stage, yellow_area, image_area,
                  MulU(attraction, Normalize(dy, target_distance))
                    + MulU(force, Normalize(dy_obs, obs_distance)))>>

\* one stage of Task 3: the vector, or NaN in both components when the
\* repulsion divides dx_obs = dy_obs = 0 by obs_distance = 0
LegacyStageVector(stage, dx, dy, target_distance, dx_obs, dy_obs, obs_distance, has_obstacle, yellow_area, image_area) ==
    IF has_obstacle /\ LegacyRepels(stage, dx_obs * dx_obs + dy_obs * dy_obs)
    THEN IF obs_distance = 0
         THEN [v |-> <<0, 0>>, nan |-> TRUE]
         ELSE [v |-> LegacyRepelled(stage,
                         LegacyAttraction(stage, target_distance),
                         LegacyForce(stage, obs_distance, yellow_area),
                         dx, dy, target_distance, dx_obs, dy_obs,
                         obs_distance, yellow_area, image_area),
               nan |-> FALSE]
    ELSE [v |-> <<MulU(LegacyAttraction(stage, target_distance),
                       Normalize(dx, target_distance)),
                  MulU(LegacyAttraction(stage, target_distance),
                       Normalize(dy, target_distance))>>,
          nan |-> FALSE]

LegacyTask3Vector(dx, dy, target_distance, center, yellow_pos, yellow_area, image_area) ==
    IF yellow_pos = None
    THEN LegacyStageVector(LegacyStage(target_distance), dx, dy,
                           target_distance, 0, 0, 0, FALSE, yellow_area,
                           image_area)
    ELSE LegacyStageVector(LegacyStage(target_distance), dx, dy,
                           target_distance, center[1] - yellow_pos[1],
                           center[2] - yellow_pos[2],
                           np_sqrt((center[1] - yellow_pos[1]) * (center[1] - yellow_pos[1])
                                   + (center[2] - yellow_pos[2]) * (center[2] - yellow_pos[2])),
                           TRUE, yellow_area, image_area)

LegacyTargetVector(task, dx, dy, target_distance, center, yellow_pos, yellow_area, image_area) ==
    IF ~(target_distance > 0) THEN [v |-> <<0, 0>>, nan |-> FALSE]
    ELSE IF task = 1 THEN [v |-> <<dx * Unit, dy * Unit>>, nan |-> FALSE]
    ELSE IF task = 2
    THEN [v |-> <<Task2Gain(target_distance) * dx,
                  Task2Gain(target_distance) * dy>>, nan |-> FALSE]
    ELSE LegacyTask3Vector(dx, dy, target_distance, center, yellow_pos,
                           yellow_area, image_area)

\* the value returned: (vx, vy, target_distance), nan telling that vx and vy
\* are NaN
LegacyResult(r, target_distance) ==
    [vx |-> r.v[1], vy |-> r.v[2], distance |-> target_distance, nan |-> r.nan]

LegacyControlAt(task, center, image_area, red_pos, yellow_pos, yellow_area) ==
    IF red_pos # None
    THEN LegacyResult(
             LegacyTargetVector(task, red_pos[1] - center[1], red_pos[2] - center[2],
                                np_sqrt((red_pos[1] - center[1]) * (red_pos[1] - center[1])
                                        + (red_pos[2] - center[2]) * (red_pos[2] - center[2])),
                                center, yellow_pos, yellow_area, image_area),
             np_sqrt((red_pos[1] - center[1]) * (red_pos[1] - center[1])
                     + (red_pos[2] - center[2]) * (red_pos[2] - center[2])))
    ELSE LegacyResult([v |-> AvoidOnlyVector(center, yellow_pos, yellow_area),
                       nan |-> FALSE], 0)

\* calculate_control_vector of src/main.py
legacy_calculate_control_vector(task, image_width, image_height, red_pos, yellow_pos, yellow_area) ==
    LegacyControlAt(task, <<image_width \div 2, image_height \div 2>>,
                    image_width * image_height, red_pos, yellow_pos, yellow_area)

\* the distances Task 3 of src/main.py divides by: target_distance, and
\* obs_distance where the stage adds a repulsion
LegacyTargetDivisors(task, target_distance, center, yellow_pos) ==
    IF ~(target_distance > 0) \/ task \in {1, 2} THEN {}
    ELSE {target_distance} \cup
         (IF yellow_pos = None THEN {}
          ELSE IF LegacyRepels(LegacyStage(target_distance),
                     (center[1] - yellow_pos[1]) * (center[1] - yellow_pos[1])
                       + (center[2] - yellow_pos[2]) * (center[2] - yellow_pos[2]))
          THEN {np_sqrt((center[1] - yellow_pos[1]) * (center[1] - yellow_pos[1])
                        + (center[2] - yellow_pos[2]) * (center[2] - yellow_pos[2]))}
          ELSE {})

\* every distance calculate_control_vector of src/main.py divides by
LegacyDivisors(task, center, red_pos, yellow_pos) ==
    IF red_pos = None THEN AvoidDivisors(center, yellow_pos)
    ELSE LegacyTargetDivisors(task,
             np_sqrt((red_pos[1] - center[1]) * (red_pos[1] - center[1])
                     + (red_pos[2] - center[2]) * (red_pos[2] - center[2])),
             center, yellow_pos)

\* vx, vy, distance = calculate_control_vector(...) in src/main.py
LegacyControl ==
    /\ pc = "control"
    /\ vec' = legacy_calculate_control_vector(TASK_ID, frame.image.w,
                                              frame.image.h, frame.red_pos,
                                              frame.yellow_pos,
                                              frame.yellow_area)
    /\ frame' = [frame EXCEPT
                    !.divisors =
                        LegacyDivisors(TASK_ID,
                                       <<frame.image.w \div 2, frame.image.h \div 2>>,
                                       frame.red_pos, frame.yellow_pos)]
    /\ pc' = "send"
    /\ UNCHANGED <<TASK_ID, stdout, rest>>

\* send_control_command(vx, vy, distance, threshold=0.3) in src/main.py:
\* every comparison with NaN is false, which leaves the final NOOP
LegacySend ==
    /\ pc = "send"
    /\ stdout' = stdout \o (IF vec.nan THEN <<"NOOP">>
                            ELSE send_control_command(vec.vx, vec.vy,
                                                      vec.distance, TASK_ID))
    /\ pc' = "sent"
    /\ UNCHANGED <<TASK_ID, vec, frame, rest>>

NextLegacy ==
    \/ Detect
    \/ LegacyControl
    \/ LegacySend

SpecLegacy == InitControl /\ [][NextLegacy]_vars

(***************************************************************************)
(* Properties of one frame (SpecControl).                                  *)
(***************************************************************************)
\* the control vector has been computed
Computed == pc \in {"send", "sent"}

\* the quantization of a vector whose components are whole pixels, under
\* the threshold 1.0 of Task 1: a direction needs a component above 1.0
WholeCommand(dx, dy) ==
    IF Abs(dx) <= 1 /\ Abs(dy) <= 1 THEN "NOOP"
    ELSE IF Abs(dx) > Abs(dy) THEN (IF dx > 0 THEN "RIGHT" ELSE "LEFT")
    ELSE IF dy > 0 THEN "DOWN" ELSE "UP"

\* C11 as stated: in mode 1 with a target detected at (tx, ty) in a W x H
\* frame the steering vector is exactly (tx - W/2, ty - H/2), W/2 and H/2
\* being the halves of the sides.
C11_ExactHalf ==
    (Computed /\ TASK_ID = 1 /\ frame.red_pos # None) =>
        /\ 2 * vec.vx = (2 * frame.red_pos[1] - frame.image.w) * Unit
        /\ 2 * vec.vy = (2 * frame.red_pos[2] - frame.image.h) * Unit

\* C11, amended: in mode 1 with a target detected at (tx, ty) in a W x H frame
\* the steering vector is exactly (tx - W div 2, ty - H div 2), the halves
\* rounded down to whole pixels; the distance is 0 exactly when the target is
\* at that centre; and the command printed is the quantization of the vector.
\* In a 640 x 480 frame the target at (320, 240) gives distance 0 and NOOP,
\* and the target at (500, 150) without obstacle gives dx = 180, dy = -90 and
\* RIGHT.
C11_Mode1Proportional ==
    (Computed /\ TASK_ID = 1 /\ frame.red_pos # None) =>
        LET dx == frame.red_pos[1] - frame.image.w \div 2
            dy == frame.red_pos[2] - frame.image.h \div 2
        IN  /\ vec.vx = dx * Unit
            /\ vec.vy = dy * Unit
            /\ (vec.distance = 0) <=> (dx = 0 /\ dy = 0)
            /\ pc = "sent" => stdout = <<WholeCommand(dx, dy)>>
            /\ (frame.image.w = 640 /\ frame.image.h = 480
                  /\ dx = 0 /\ dy = 0 /\ pc = "sent")
                 => (vec.distance = 0 /\ stdout = <<"NOOP">>)
            /\ (frame.image.w = 640 /\ frame.image.h = 480
                  /\ dx = 180 /\ dy = -90 /\ frame.yellow_pos = None
                  /\ pc = "sent")
                 => (vec.vx = 180 * Unit /\ vec.vy = -90 * Unit
                       /\ stdout = <<"RIGHT">>)

C11_Witness ==
    /\ pc = "sent"
    /\ TASK_ID = 1
    /\ frame.image.w = 641
    /\ frame.red_pos # None
    /\ frame.red_pos = <<500, 150>>
    /\ frame.yellow_pos = None
    /\ vec.vx = 180 * Unit
    /\ stdout = <<"RIGHT">>

\* the offset of the detected target from the centre, and its square length
TargetDx == frame.red_pos[1] - frame.image.w \div 2
TargetDy == frame.red_pos[2] - frame.image.h \div 2
TargetSq == TargetDx * TargetDx + TargetDy * TargetDy

\* the gain of mode 2 in hundredths, by the square of the distance
GainPercent(sq) ==
    IF sq > 100 * 100 THEN 150
    ELSE IF sq > 50 * 50 THEN 100
    ELSE IF sq > 25 * 25 THEN 60
    ELSE IF sq > 10 * 10 THEN 40
    ELSE 25

CentreDx == frame.image.w \div 2 - frame.yellow_pos[1]
CentreDy == frame.image.h \div 2 - frame.yellow_pos[2]

\* C13: when no target is detected, in every mode the returned distance is 0
\* and the vector is the same whatever the mode; it is (0, 0), and the command
\* NOOP, when no obstacle is detected or the obstacle is exactly at the frame
\* centre; otherwise it is not zero, points from the obstacle toward the
\* centre (parallel to that offset up to the rounding of the arithmetic, and
\* with its sense), and its magnitude is at most 15.
C13_NoTargetAvoidOnly ==
    (Computed /\ frame.red_pos = None) =>
        /\ vec.distance = 0
        /\ \A task \in Tasks :
              calculate_control_vector(task, frame.image.w, frame.image.h,
                                       frame.red_pos, frame.yellow_pos,
                                       frame.yellow_area) = vec
        /\ IF frame.yellow_pos = None \/ (CentreDx = 0 /\ CentreDy = 0)
           THEN /\ vec.vx = 0 /\ vec.vy = 0
                /\ pc = "sent" => stdout = <<"NOOP">>
           ELSE /\ vec.vx * CentreDx >= 0
                /\ vec.vy * CentreDy >= 0
                /\ vec.vx * CentreDx + vec.vy * CentreDy > 0
                /\ Abs(vec.vx * CentreDy - vec.vy * CentreDx)
                     <= 16 * (Abs(CentreDx) + Abs(CentreDy))
                /\ (vec.vx \div 10) * (vec.vx \div 10)
                     + (vec.vy \div 10) * (vec.vy \div 10)
                     <= (15 * (Unit \div 10)) * (15 * (Unit \div 10))

\* an obstacle near the centre, whose repulsion is capped, seen in mode 1
C13_Witness ==
    /\ pc = "sent"
    /\ TASK_ID = 1
    /\ frame.red_pos = None
    /\ frame.yellow_pos # None
    /\ CentreDx = 0 /\ CentreDy = -60
    /\ frame.yellow_area = 5000
    /\ vec = [vx |-> 0, vy |-> -15 * Unit, distance |-> 0]
    /\ stdout = <<"UP">>

\* the offset of the detected obstacle from the centre
ObsDx == frame.yellow_pos[1] - frame.image.w \div 2
ObsDy == frame.yellow_pos[2] - frame.image.h \div 2

\* the cross product of the target offset and the obstacle offset
Cross == TargetDx * ObsDy - TargetDy * ObsDx

\* mode 3 has computed a bypass: target off-centre, obstacle in the safety zone
Bypassing ==
    /\ Computed
    /\ TASK_ID \notin {1, 2}
    /\ frame.red_pos # None
    /\ TargetSq > 0
    /\ frame.yellow_pos # None
    /\ Abs(ObsDx) < 150
    /\ Abs(ObsDy) < 150

\* C14: in mode 3 with the obstacle inside the safety zone the bypass tangent
\* is (dy, -dx) divided by the length of (dx, dy) when the cross product
\* dx * dy_obs - dy * dx_obs is positive, and (-dy, dx) divided by it when the
\* cross product is negative; in both cases its dot product with the obstacle's
\* offset from the centre is negative; and the returned vector has a positive
\* component along it.
C14_BypassTangent ==
    Bypassing =>
        /\ (frame.bypass.len - 1) * (frame.bypass.len - 1)
              < TargetSq * Hundredths * Hundredths
        /\ TargetSq * Hundredths * Hundredths
              <= frame.bypass.len * frame.bypass.len
        /\ Cross > 0 => (frame.bypass.x = TargetDy /\ frame.bypass.y = -TargetDx)
        /\ Cross < 0 => (frame.bypass.x = -TargetDy /\ frame.bypass.y = TargetDx)
        /\ Cross # 0 =>
              /\ frame.bypass.x * ObsDx + frame.bypass.y * ObsDy < 0
              /\ DivT(vec.vx, Unit) * frame.bypass.x
                   + DivT(vec.vy, Unit) * frame.bypass.y > 0

\* target to the right, obstacle below the line to it: the tangent points up
C14_Witness ==
    /\ Bypassing
    /\ pc = "sent"
    /\ TASK_ID = 3
    /\ TargetDx = 100 /\ TargetDy = 0
    /\ ObsDx = 100 /\ ObsDy = 50
    /\ frame.bypass = [x |-> 0, y |-> -100, len |-> 100 * Hundredths]
    /\ stdout = <<"UP">>

\* the obstacle offset o is the mirror image of the detected obstacle's offset
\* across the line through the centre and the target: the same component
\* along the line, the opposite one across it
IsMirror(o) ==
    /\ TargetDx * o[1] + TargetDy * o[2] = TargetDx * ObsDx + TargetDy * ObsDy
    /\ TargetDx * o[2] - TargetDy * o[1] = -Cross

\* C15: in mode 3, for the target offset of the frame and its obstacle inside
\* the safety zone off the target line, every obstacle position inside the
\* safety zone that is the mirror image of that obstacle across the line
\* through the centre and the target gets the opposite bypass tangent (the
\* mirror image of a vector perpendicular to the line), of the same length.
C15_MirrorTangent ==
    (Bypassing /\ Cross # 0) =>
        \A o \in ObstacleOffsets :
            (IsMirror(o) /\ Abs(o[1]) < 150 /\ Abs(o[2]) < 150) =>
                LET mirrored == Bypass(TargetDx, TargetDy,
                                       <<frame.image.w \div 2,
                                         frame.image.h \div 2>>, At(o))
                IN  /\ mirrored.x = -frame.bypass.x
                    /\ mirrored.y = -frame.bypass.y
                    /\ mirrored.len = frame.bypass.len
                    /\ (frame.bypass.x # 0 \/ frame.bypass.y # 0)

\* a target along (3, 4) with the obstacle at (25, 0), whose mirror image
\* (-7, 24) is an obstacle position of the model
C15_Witness ==
    /\ Bypassing
    /\ TASK_ID = 3
    /\ TargetDx = 18 /\ TargetDy = 24
    /\ ObsDx = 25 /\ ObsDy = 0
    /\ IsMirror(<<-7, 24>>)
    /\ <<-7, 24>> \in ObstacleOffsets
    /\ frame.bypass.x = -24 /\ frame.bypass.y = 18

\* mode 3 with a target nearer than 30 and an obstacle detected
NearWithObstacle ==
    /\ Computed
    /\ TASK_ID \notin {1, 2}
    /\ frame.red_pos # None
    /\ TargetSq > 0
    /\ TargetSq < 30 * 30
    /\ frame.yellow_pos # None

\* the vector of the near stage computed without the boost: the same
\* computation in a frame so large that the obstacle covers 0.05 of it
Unboosted ==
    StageVector("near",
                Bypass(TargetDx, TargetDy,
                       <<frame.image.w \div 2, frame.image.h \div 2>>,
                       frame.yellow_pos),
                InSafetyZone(<<frame.image.w \div 2, frame.image.h \div 2>>,
                             frame.yellow_pos),
                TargetDx, TargetDy, vec.distance,
                <<frame.image.w \div 2, frame.image.h \div 2>>,
                frame.yellow_pos, frame.yellow_area, 20 * frame.yellow_area)

\* C16: in mode 3's near regime with a target and an obstacle detected, when
\* the obstacle's area exceeds 0.1 of the frame area the returned vector is 5
\* times the vector computed without the boost, and when the ratio is in
\* (0.05, 0.1] it is 3 times that vector.
C16_LargeObstacleBoost ==
    NearWithObstacle =>
        /\ 10 * frame.yellow_area > frame.image.w * frame.image.h
              => (vec.vx = 5 * Unboosted[1] /\ vec.vy = 5 * Unboosted[2])
        /\ ( /\ 20 * frame.yellow_area > frame.image.w * frame.image.h
             /\ 10 * frame.yellow_area <= frame.image.w * frame.image.h )
              => (vec.vx = 3 * Unboosted[1] /\ vec.vy = 3 * Unboosted[2])

\* the two locators have run
Detected == pc \in {"control", "send", "sent"}

\* the regions of largest area among the regions of a mask
Largest(contours) ==
    { r \in Range(contours) : \A q \in Range(contours) : q.area <= r.area }

\* C17: each locator reports the blob absent when its mask has no region or
\* the largest area is below 100, and otherwise (area 100 included) picks a
\* region of largest area: the target locator returns that region's point;
\* the obstacle locator returns its area and, when its zeroth moment is not
\* zero, its point.
C17_LargestRegion ==
    Detected =>
        /\ IF \A r \in Largest(frame.image.red) : r.area < 100
           THEN frame.red_pos = None
           ELSE /\ frame.red_pos # None
                /\ \E r \in Largest(frame.image.red) :
                      frame.red_pos = <<r.x, r.y>>
        /\ IF \A r \in Largest(frame.image.yellow) : r.area < 100
           THEN frame.yellow_pos = None /\ frame.yellow_area = 0
           ELSE \E r \in Largest(frame.image.yellow) :
                   /\ frame.yellow_area = r.area
                   /\ r.m00 # 0 =>
                         /\ frame.yellow_pos # None
                         /\ frame.yellow_pos = <<r.x, r.y>>

\* a target of area exactly 100, and an obstacle that is the second and
\* larger of two yellow regions
C17_Witness ==
    /\ Detected
    /\ frame.image.red = <<Blob(100, <<80, 0>>)>>
    /\ frame.red_pos # None
    /\ frame.red_pos = <<400, 240>>
    /\ frame.image.yellow = <<Blob(60, <<100, 50>>), Blob(5000, <<-7, 24>>)>>
    /\ frame.yellow_pos # None
    /\ frame.yellow_pos = <<313, 264>>
    /\ frame.yellow_area = 5000

\* the largest yellow region has area at least 100 and a zero zeroth moment
Degenerate ==
    /\ frame.image.yellow # <<>>
    /\ \A r \in Largest(frame.image.yellow) : r.area >= 100 /\ r.m00 = 0

\* C18: when the largest yellow region has area at least 100 and a zero
\* zeroth moment, the obstacle locator returns that area with no position,
\* and the vector, the distance and the command of the turn are those of the
\* same image without any yellow region.
C18_DegenerateObstacle ==
    (Detected /\ Degenerate) =>
        /\ frame.yellow_pos = None
        /\ \E r \in Largest(frame.image.yellow) : frame.yellow_area = r.area
        /\ Computed =>
              vec = FrameVector(TASK_ID, [frame.image EXCEPT !.yellow = <<>>])
        /\ pc = "sent" =>
              stdout = SendVector(
                  FrameVector(TASK_ID, [frame.image EXCEPT !.yellow = <<>>]),
                  TASK_ID)

\* a degenerate yellow region of area 150 beside a detected target, in mode 3
C18_Witness ==
    /\ pc = "sent"
    /\ TASK_ID = 3
    /\ frame.image.yellow = <<Region(150, 0, 0, 0)>>
    /\ frame.yellow_pos = None
    /\ frame.yellow_area = 150
    /\ frame.red_pos # None
    /\ TargetDx = 18 /\ TargetDy = 24
    /\ stdout = <<"DOWN">>

\* mode 3 has chosen a stage: a target detected off-centre
Staged ==
    /\ Computed
    /\ TASK_ID \notin {1, 2}
    /\ frame.red_pos # None
    /\ TargetSq > 0

\* a target straight to the right and no obstacle: vx is the attraction force
PlainRight ==
    /\ frame.yellow_pos = None
    /\ TargetDy = 0
    /\ TargetDx > 0

C19_ThresholdNonIncreasing ==
    /\ TASK_ID = 1 => AdjustedThreshold(TASK_ID, vec.distance) = Unit
    /\ TASK_ID = 2 => 2 * AdjustedThreshold(TASK_ID, vec.distance) = 3 * Unit
    /\ TASK_ID \notin {1, 2} =>
          /\ 1000 * AdjustedThreshold(TASK_ID, vec.distance) >= Unit
          /\ 1000 * AdjustedThreshold(TASK_ID, vec.distance) <= 5 * Unit
          /\ \A d \in QDistances :
                d >= vec.distance =>
                    AdjustedThreshold(TASK_ID, d)
                       <= AdjustedThreshold(TASK_ID, vec.distance)

\* the threshold in thousandths, by mode and distance (hundredths)
ThresholdMilli(task, distance) ==
    IF task = 1 THEN 1000
    ELSE IF task = 2 THEN 1500
    ELSE IF distance > 100 * Hundredths THEN 1
    ELSE IF distance > 50 * Hundredths THEN 2
    ELSE IF distance > 20 * Hundredths THEN 3
    ELSE IF distance > 5 * Hundredths THEN 5
    ELSE 1

\* C19, amended: the threshold is 1.0 in mode 1 and 1.5 in mode 2 whatever
\* the distance; in every other mode it is 0.001 for distance > 100, 0.002
\* for > 50, 0.003 for > 20, 0.005 for > 5 and 0.001 for distance <= 5: a
\* value between 0.001 and 0.005 that never increases as the distance
\* increases above 5, and is smallest again at 5 and below.  A vector along
\* +x is answered RIGHT exactly when it exceeds that threshold.
C19_ThresholdTable ==
    /\ 1000 * AdjustedThreshold(TASK_ID, vec.distance)
          = ThresholdMilli(TASK_ID, vec.distance) * Unit
    /\ TASK_ID \notin {1, 2} =>
          /\ 1000 * AdjustedThreshold(TASK_ID, vec.distance) >= Unit
          /\ 1000 * AdjustedThreshold(TASK_ID, vec.distance) <= 5 * Unit
          /\ \A d \in QDistances :
                (d >= vec.distance /\ vec.distance > 5 * Hundredths) =>
                    AdjustedThreshold(TASK_ID, d)
                       <= AdjustedThreshold(TASK_ID, vec.distance)
          /\ vec.distance <= 5 * Hundredths =>
                1000 * AdjustedThreshold(TASK_ID, vec.distance) = Unit
    /\ (pc = "quantized" /\ vec.vy = 0 /\ vec.vx >= 0) =>
          (stdout = <<"RIGHT">>
             <=> vec.vx > (ThresholdMilli(TASK_ID, vec.distance) * Unit) \div 1000)

\* at distance 5 a vector of 0.002 moves the gimbal: the threshold is 0.001
C19_Witness ==
    /\ pc = "quantized"
    /\ TASK_ID = 3
    /\ vec.distance = 5 * Hundredths
    /\ vec.vx = (2 * Unit) \div 1000
    /\ vec.vy = 0
    /\ stdout = <<"RIGHT">>

(***************************************************************************)
(* Divisions of the control law.                                           *)
(***************************************************************************)
\* C21: for every mode, target position, obstacle position and area (an
\* obstacle exactly at the frame centre included), no distance the control
\* law has divided by is zero.
C21_NoZeroDivisor ==
    Computed => 0 \notin frame.divisors


(* The bypass of mode 3. *)
\* the forces of the bypass by the square of the target distance
BypassForce(sq) ==
    IF sq > 150 * 150 THEN 4000 ELSE IF sq > 30 * 30 THEN 3000 ELSE 2000

TargetForce(sq) ==
    IF sq > 150 * 150 THEN 300 ELSE IF sq > 30 * 30 THEN 200 ELSE 100

\* the returned vector's components, in hundredths times pixels, along the
\* target offset and along the bypass tangent
AlongTarget == DivT(vec.vx, 100) * TargetDx + DivT(vec.vy, 100) * TargetDy
AlongTangent ==
    DivT(vec.vx, 100) * frame.bypass.x + DivT(vec.vy, 100) * frame.bypass.y

\* the obstacle is detected strictly inside the square of half-width 150
ObstacleInSquare ==
    /\ frame.yellow_pos # None
    /\ Abs(ObsDx) < 150
    /\ Abs(ObsDy) < 150

\* C22: in mode 3 with a target off-centre the bypass tangent is set exactly
\* when an obstacle is detected with |dx_obs| < 150 and |dy_obs| < 150; the
\* vector is then bypass_force times the unit tangent plus target_force times
\* the unit target direction, with forces (4000, 300) far, (3000, 200) mid and
\* (2000, 100) near (its components along the tangent and along the target,
\* each times the length of the offset, are the forces times the squared
\* length, to the rounding of the arithmetic), so its component along the
\* target direction is strictly positive.
C22_BypassInZone ==
    Staged =>
        /\ (frame.bypass.x # 0 \/ frame.bypass.y # 0) <=> ObstacleInSquare
        /\ ObstacleInSquare =>
              /\ Abs(AlongTarget - TargetForce(TargetSq) * frame.bypass.len)
                    <= 50 * (Abs(TargetDx) + Abs(TargetDy)) + TargetForce(TargetSq)
              /\ Abs(AlongTangent - BypassForce(TargetSq) * frame.bypass.len)
                    <= 50 * (Abs(TargetDx) + Abs(TargetDy)) + BypassForce(TargetSq)
              /\ AlongTarget > 0

\* far target straight up, obstacle in the corner of the zone at (149, -149):
\* bypass to the left with 4000, 300 kept toward the target
C22_Witness ==
    /\ Staged
    /\ pc = "sent"
    /\ TASK_ID = 3
    /\ TargetDx = 0 /\ TargetDy = -200
    /\ ObstacleInSquare
    /\ ObsDx = 149 /\ ObsDy = -149
    /\ vec.vx = -4000 * Unit
    /\ vec.vy = -300 * Unit
    /\ stdout = <<"LEFT">>

(* The dead band of mode 1. *)
\* C23: in mode 1, whenever the detected target is at least 1 pixel away from
\* the frame centre on some axis the command is a direction, and NOOP is
\* printed only when the offset is below 1 pixel on both axes.
C23_OnePixelMoves ==
    (pc = "sent" /\ TASK_ID = 1 /\ frame.red_pos # None) =>
        (stdout = <<"NOOP">> <=> (Abs(TargetDx) < 1 /\ Abs(TargetDy) < 1))

(* The handshake and the debug flag. *)
\* C24: the first handshake line reflects the session's debug flag: it is
\* debug=true when debug mode is on and debug=false when debug mode is off.
C24_DebugFlagLine ==
    Len(stdout) >= 1 =>
        stdout[1] = IF debug_mode THEN "debug=true" ELSE "debug=false"

(* Mode 3 without obstacle. *)
\* C25: in mode 3 (and every mode other than 1 and 2) with a target detected
\* off-centre and no obstacle detected the command is never NOOP, however
\* small the offset: it is the direction toward the target on the axis of
\* larger offset (on one of the two axes when the offsets are equal).
C25_AlwaysTowardTarget ==
    (pc = "sent" /\ Staged /\ frame.yellow_pos = None) =>
        /\ stdout # <<"NOOP">>
        /\ Abs(TargetDx) > Abs(TargetDy)
              => stdout = <<IF TargetDx > 0 THEN "RIGHT" ELSE "LEFT">>
        /\ Abs(TargetDy) > Abs(TargetDx)
              => stdout = <<IF TargetDy > 0 THEN "DOWN" ELSE "UP">>
        /\ Abs(TargetDx) = Abs(TargetDy)
              => stdout \in {<<IF TargetDx > 0 THEN "RIGHT" ELSE "LEFT">>,
                             <<IF TargetDy > 0 THEN "DOWN" ELSE "UP">>}

\* the smallest offset, one pixel to the right: vx = 1/80 = 0.0125, above the
\* threshold 0.001
C25_Witness ==
    /\ pc = "sent"
    /\ Staged
    /\ TASK_ID = 0
    /\ frame.yellow_pos = None
    /\ TargetDx = 1 /\ TargetDy = 0
    /\ vec.vx = 125
    /\ stdout = <<"RIGHT">>

(* The near stage outside the safety zone. *)
\* C26: in mode 3's near regime (distance <= 30), whenever an obstacle is
\* detected and the bypass is not engaged (the obstacle is outside the safety
\* zone), the obstacle is at distance >= 150 and the returned vector is pure
\* attraction, the vector of the same frame without any obstacle: neither the
\* repulsion of the near regime nor the large-obstacle boost is applied.
C26_NearPureAttraction ==
    ( /\ Staged
      /\ TargetSq <= 30 * 30
      /\ frame.yellow_pos # None
      /\ frame.bypass.x = 0
      /\ frame.bypass.y = 0 ) =>
        /\ ObsDx * ObsDx + ObsDy * ObsDy >= 150 * 150
        /\ vec = calculate_control_vector(TASK_ID, frame.image.w, frame.image.h,
                                          frame.red_pos, None, 0)

\* target 10 right, obstacle of 0.13 of the frame on the edge of the zone:
\* vx = 10/80, unboosted
C26_Witness ==
    /\ pc = "sent"
    /\ Staged
    /\ TASK_ID = 3
    /\ TargetDx = 10 /\ TargetDy = 0
    /\ frame.yellow_pos # None
    /\ ObsDx = 150 /\ ObsDy = 0
    /\ frame.yellow_area = 40000
    /\ frame.image.w = 640
    /\ vec.vx = 1250 /\ vec.vy = 0
    /\ stdout = <<"RIGHT">>

(* The bypass with the obstacle on the line to the target. *)
\* C27: in mode 3, when the obstacle is inside the safety zone and the cross
\* product is exactly 0 (the obstacle on the line through the centre and the
\* target, in front of or behind the centre, or at the centre), the bypass is
\* still engaged (the returned vector has the bypass force of the stage along
\* the tangent) and the tangent is (-dy, dx) over the length of (dx, dy), as
\* for a negative cross product.
C27_CollinearBypass ==
    (Bypassing /\ Cross = 0) =>
        /\ frame.bypass.x = -TargetDy
        /\ frame.bypass.y = TargetDx
        /\ (frame.bypass.len - 1) * (frame.bypass.len - 1)
              < TargetSq * Hundredths * Hundredths
        /\ TargetSq * Hundredths * Hundredths
              <= frame.bypass.len * frame.bypass.len
        /\ Abs(AlongTangent - BypassForce(TargetSq) * frame.bypass.len)
              <= 50 * (Abs(TargetDx) + Abs(TargetDy)) + BypassForce(TargetSq)
        /\ \A o \in ObstacleOffsets :
              (Abs(o[1]) < 150 /\ Abs(o[2]) < 150
                 /\ TargetDx * o[2] - TargetDy * o[1] < 0)
                => BypassTangent(TargetDx, TargetDy, o[1], o[2]) = frame.bypass

\* target 10 to the right, obstacle 25 to the right, straight in front: the
\* tangent is (0, 10)/10 and the command DOWN
C27_Witness ==
    /\ Bypassing
    /\ pc = "sent"
    /\ TASK_ID = 3
    /\ TargetDx = 10 /\ TargetDy = 0
    /\ ObsDx = 25 /\ ObsDy = 0
    /\ Cross = 0
    /\ frame.bypass = [x |-> 0, y |-> 10, len |-> 10 * Hundredths]
    /\ vec.vx = 100 * Unit
    /\ vec.vy = 2000 * Unit
    /\ stdout = <<"DOWN">>

(* Modes 1 and 2 and the obstacle. *)
\* C28: in modes 1 and 2, whenever a target is detected, the steering vector,
\* the distance and the command are those of the frame of the same size and
\* target with any other obstacle region, position and area, or with none.
C28_ObstacleIndependent ==
    (Computed /\ TASK_ID \in {1, 2} /\ frame.red_pos # None) =>
        \A y \in YellowContours :
            /\ vec = FrameVector(TASK_ID, [frame.image EXCEPT !.yellow = y])
            /\ pc = "sent" =>
                  stdout = SendVector(
                               FrameVector(TASK_ID,
                                           [frame.image EXCEPT !.yellow = y]),
                               TASK_ID)

\* mode 2, target at (500, 150), a large obstacle inside the safety zone:
\* the vector is 1.5 * (180, -90) all the same
C28_Witness ==
    /\ pc = "sent"
    /\ TASK_ID = 2
    /\ frame.red_pos # None
    /\ frame.image.w = 640
    /\ TargetDx = 180 /\ TargetDy = -90
    /\ ObstacleInSquare
    /\ ObsDx = 100 /\ ObsDy = 50
    /\ frame.yellow_area = 20000
    /\ vec.vx = 270 * Unit
    /\ vec.vy = -135 * Unit
    /\ stdout = <<"RIGHT">>

(* Equal magnitudes. *)
\* C29: when |vx| = |vy| and that magnitude is above the threshold, the
\* quantizer answers on the vertical axis: DOWN if vy > 0 and UP if vy < 0,
\* never LEFT or RIGHT.
C29_TieVertical ==
    ( /\ pc = "quantized"
      /\ Abs(vec.vx) = Abs(vec.vy)
      /\ Abs(vec.vy) > (ThresholdMilli(TASK_ID, vec.distance) * Unit) \div 1000 ) =>
        stdout = <<IF vec.vy > 0 THEN "DOWN" ELSE "UP">>

\* (-2000, 2000): DOWN, not LEFT
C29_Witness ==
    /\ pc = "quantized"
    /\ TASK_ID = 3
    /\ vec.vx = -2000 * Unit
    /\ vec.vy = 2000 * Unit
    /\ stdout = <<"DOWN">>

(* The removal of the consumed frame. *)
\* the step removes the file at path p
Deletes(p) == fs[p] # "missing" /\ fs'[p] = "missing"

\* C30 as stated: the consumed file is deleted only when its path ends in
\* .png (case-insensitive) and the frame was loaded; the step that deletes it
\* is the processing of that path, has printed that turn's command and reads
\* no input line; a file that is missing, undecodable or of another extension
\* is never deleted.
C30_DeletedAfterCommand ==
    [][\A p \in Paths :
          Deletes(p) =>
              /\ EndsWithPng(Lower(p))
              /\ fs[p] \in ImageIds
              /\ pc = "process" /\ p = image_path
              /\ stdout' = stdout \o FrameCommand(TASK_ID, fs[p])
              /\ stdin' = stdin
              /\ pc' = "read"]_vars

\* C30, amended: the consumed file is deleted only when its path ends in .png
\* (case-insensitive) and the file exists and is not one that imread fails to
\* decode; the step that deletes it is the processing of that path and reads
\* no input line.  When the frame was loaded and processed the step has
\* printed that turn's command; when the processing raised an exception the
\* file is deleted all the same and no command is printed.  A file that is
\* missing, undecodable or of another extension is never deleted.
C30_DeletedByProcessing ==
    [][\A p \in Paths :
          Deletes(p) =>
              /\ EndsWithPng(Lower(p))
              /\ fs[p] \in ImageIds \cup {"raises"}
              /\ pc = "process" /\ p = image_path
              /\ fs[p] \in ImageIds
                    => stdout' = stdout \o FrameCommand(TASK_ID, fs[p])
              /\ fs[p] = "raises" => stdout' = stdout
              /\ stdin' = stdin
              /\ pc' = "read"]_vars

\* a.PNG held an image, was processed and answered, and is gone, while b.jpg,
\* processed too, is still there
C30_Witness ==
    /\ Len(turns) = 2
    /\ turns[1] = [path |-> Path("a", ".PNG"), content |-> "img1"]
    /\ turns[2].path = Path("b", ".jpg")
    /\ turns[2].content \in ImageIds
    /\ fs[Path("a", ".PNG")] = "missing"
    /\ fs[Path("b", ".jpg")] = turns[2].content
    /\ Len(CommandLines) = 2
    /\ pc = "read"

=========================================================================
